---- MODULE Spec2Model ----
(***************************************************************************)
(* testbed/data/sampler/__init__.py: ConcatSampler and MultiBatchSampler.  *)
(*                                                                         *)
(* A wrapped sampler is an external object that hands out independent      *)
(* iterators over one fixed finite sequence of items; an item is a bare    *)
(* integer or a list of integers.  An iterator is the 1-based position of  *)
(* the next item it will produce.  A pass over ConcatSampler or            *)
(* MultiBatchSampler is a Python generator: nothing of __iter__ runs when  *)
(* the generator is created, and each next() runs the body up to the next  *)
(* yield, to the end of the body, or to an uncaught exception.             *)
(***************************************************************************)
EXTENDS Integers, Sequences, FiniteSets, TLC

\* ------------------------------------------------------------- bounds
MaxLen == 3        \* longest sampler wrapped by a ConcatSampler
MaxSamplers == 2   \* most samplers wrapped by a ConcatSampler
MaxBatches == 4    \* longest batch sampler wrapped by a MultiBatchSampler
MaxMerge == 3      \* largest merge factor tried

Pass == {1, 2}                 \* two consumers, each running passes
MaxOut == MaxLen + MaxBatches  \* batches of a pass that are recorded
Widths == {1, 2}               \* batch_size of the wrapped batch samplers
DatasetSizes == <<3, 5, 4, 5, 6, 2>>

VARIABLES
    cls,                      \* class of the object under construction
    samplers,                 \* ConcatSampler argument / self.samplers
    cumulative_dataset_sizes, \* ConcatSampler argument
    sampler,                  \* MultiBatchSampler argument / self.sampler
    multi_merge_size,         \* MultiBatchSampler argument
    drop_last_arg,            \* MultiBatchSampler argument drop_last
    constructed,              \* "new", "ok", or the exception __init__ raised
    peek_iters,               \* the iterators __init__ made for its peek
    cumulative_indices,       \* self.cumulative_indices
    batch_size,               \* self.batch_size
    merge_size,               \* self.merge_size
    drop_last,                \* self.drop_last
    pc,                       \* per pass: where its generator stands
    sampler_iters,            \* per pass: the wrapped samplers' iterators
    batch,                    \* per pass: MultiBatchSampler's buffer
    idx_in_batch,             \* per pass: MultiBatchSampler's fill count
    out,                      \* per pass: the batches yielded (first MaxOut)
    resumes,                  \* per pass: parity of the next() calls made
    len_result                \* result of the last len() query

vars == <<cls, samplers, cumulative_dataset_sizes, sampler, multi_merge_size,
          drop_last_arg, constructed, peek_iters, cumulative_indices,
          batch_size, merge_size, drop_last, pc, sampler_iters, batch,
          idx_in_batch, out, resumes, len_result>>

argVars == <<cls, samplers, cumulative_dataset_sizes, sampler,
             multi_merge_size, drop_last_arg>>
selfVars == <<constructed, peek_iters, cumulative_indices, batch_size,
              merge_size, drop_last>>
passVars == <<pc, sampler_iters, batch, idx_in_batch, out, resumes>>

\* ------------------------------------------------------ wrapped samplers
RECURSIVE SumSeq(_)
SumSeq(s) == IF s = <<>> THEN 0 ELSE Head(s) + SumSeq(Tail(s))

RECURSIVE Flatten(_)
Flatten(ss) == IF ss = <<>> THEN <<>> ELSE Head(ss) \o Flatten(Tail(ss))

Min(S) == CHOOSE x \in S : \A y \in S : x <= y

\* SequentialSampler(range(n)): the bare integers 0 .. n-1.
ScalarSampler(n) ==
    [list |-> FALSE, lens |-> [k \in 1..n |-> 1], batch_size |-> 1, first |-> 0]

\* A batch sampler: lists of consecutive indices, lens[k] of them in the
\* k-th list, counted from `first`.
ListSampler(lens, bs, first) ==
    [list |-> TRUE, lens |-> lens, batch_size |-> bs, first |-> first]

SamplerLen(s) == Len(s.lens)

\* The k-th item of sampler s.
Item(s, k) ==
    LET start == s.first + SumSeq(SubSeq(s.lens, 1, k - 1))
    IN  [list |-> s.list, v |-> [j \in 1..s.lens[k] |-> start + j - 1]]

\* iter(sampler): a new iterator, at the first item.
NewIter == 1

\* next(it) on sampler s raises StopIteration.
Exhausted(s, it) == it > SamplerLen(s)

\* Sequences over S of length lo..hi.
SeqsOf(S, lo, hi) == UNION {[1..n -> S] : n \in lo..hi}

\* The samplers a ConcatSampler is built from: index samplers and batch
\* samplers with full batches, empty ones included.
ConcatChoices ==
    {ScalarSampler(n) : n \in 0..MaxLen}
    \cup {ListSampler([k \in 1..n |-> w], w, 0) : n \in 0..MaxLen, w \in Widths}

\* cumulative_dataset_sizes: omitted, or the running totals of the first k
\* dataset sizes (ConcatDataset.cumulative_sizes), for any k.
RECURSIVE Cumulative(_)
Cumulative(k) ==
    IF k = 0 THEN <<>>
    ELSE Append(Cumulative(k - 1), SumSeq(SubSeq(DatasetSizes, 1, k)))

SizesChoices ==
    {[given |-> FALSE, v |-> <<>>]}
    \cup {[given |-> TRUE, v |-> Cumulative(k)] : k \in 0..(MaxSamplers + 1)}

\* The samplers a MultiBatchSampler is built from: batch samplers whose
\* batches are non-empty lists of at most batch_size indices (indices count
\* from 1, so that a 0 in an output is padding), and index samplers.
MultiChoices ==
    UNION {{ListSampler(lens, w, 1) : lens \in SeqsOf(1..w, 0, MaxBatches)} :
           w \in Widths}
    \cup {ScalarSampler(n) : n \in 0..1}

\* Python values with their type, for the arguments __init__ validates.
PyInt(n) == [type |-> "int", val |-> n]
PyBool(b) == [type |-> "bool", val |-> IF b THEN 1 ELSE 0]
\* 2.5; only its type is ever looked at (line 92 rejects it).
PyFloat25 == [type |-> "float", val |-> 2]
PyNone == [type |-> "NoneType", val |-> 0]

MergeChoices ==
    {PyInt(n) : n \in {-2, 0} \cup 1..MaxMerge}
    \cup {PyBool(TRUE), PyBool(FALSE), PyFloat25}

DropChoices == {PyBool(TRUE), PyBool(FALSE), PyInt(1), PyNone}

NoSampler == ScalarSampler(0)
NoSizes == [given |-> FALSE, v |-> <<>>]
NoResult == [kind |-> "none", v |-> 0]

\* ------------------------------------------------------------ generators
\* Where a pass's generator stands: "idle" (not made yet), "created" (made,
\* not started), "suspended" (at a yield inside the loop), "last" (at
\* MultiBatchSampler's trailing yield), "done" (returned), "raised" (ended by
\* an uncaught exception).
Ended == {"done", "raised"}

\* The iterators the constructor's peek left behind, had they been kept.
HeldIters(n) == peek_iters

\* [iter(sampler) for sampler in ...]: every pass gets iterators of its own.
FreshIters(n) == [i \in 1..n |-> NewIter]

\* What one next() on a generator does: kind is "yield" (a batch from inside
\* the loop), "last" (the trailing partial batch), "stop" (the body ended)
\* or the exception that escaped; its, buf and idx are the generator's
\* locals sampler_iters, batch and idx_in_batch afterwards.
Outcome(kind, its, yielded, buf, idx) ==
    [kind |-> kind, its |-> its, yielded |-> yielded, buf |-> buf, idx |-> idx]

PcAfter(kind) ==
    CASE kind = "yield" -> "suspended"
      [] kind = "last" -> "last"
      [] kind = "stop" -> "done"
      [] OTHER -> "raised"

\* out records the first MaxOut batches of a pass.
Record(o, b) == IF Len(o) < MaxOut THEN Append(o, b) ELSE o

\* --------------------------------------------------------- ConcatSampler
\* Offsets with the sizes list taken as it is, not shifted by one.
CumulativeIndicesUnshifted(sizes, n) ==
    IF sizes.given THEN sizes.v ELSE [i \in 1..n |-> 0]

\* [0] + cumulative_dataset_sizes[:-1], or [0] * len(self.samplers).
CumulativeIndices(sizes, n) ==
    IF sizes.given
    THEN <<0>> \o SubSeq(sizes.v, 1, Len(sizes.v) - 1)
    ELSE [i \in 1..n |-> 0]

\* len(idx) if isinstance(idx, list) else 1
ItemSize(item) == IF item.list THEN Len(item.v) ELSE 1

ConcatSampler_init ==
    /\ cls = "ConcatSampler"
    /\ constructed = "new"
    /\ LET n == Len(samplers)
       IN  IF \E i \in 1..n : Exhausted(samplers[i], NewIter)
           THEN \* next(iter(sampler)) raises StopIteration out of __init__
                /\ constructed' = "StopIteration"
                /\ UNCHANGED <<peek_iters, cumulative_indices, batch_size>>
           ELSE /\ constructed' = "ok"
                /\ peek_iters' = [i \in 1..n |-> NewIter + 1]
                /\ batch_size' =
                       SumSeq([i \in 1..n |-> ItemSize(Item(samplers[i], NewIter))])
                /\ cumulative_indices' =
                       CumulativeIndices(cumulative_dataset_sizes, n)
    /\ UNCHANGED <<argVars, merge_size, drop_last, passVars, len_result>>

\* idx + self.cumulative_indices[i] for every idx of one drawn item.
AddOffset(v, off) == [j \in 1..Len(v) |-> v[j] + off]

\* self.cumulative_indices[i] is read for an item that has an element (or is
\* a bare integer) and has no entry i: IndexError.
OffsetMissing(sample_indices) ==
    \E i \in 1..Len(sample_indices) :
        /\ i > Len(cumulative_indices)
        /\ (~sample_indices[i].list \/ sample_indices[i].v # <<>>)

\* The batch built from one drawn item per wrapped sampler.
ConcatBatch(sample_indices) ==
    Flatten([i \in 1..Len(sample_indices) |->
                AddOffset(sample_indices[i].v, cumulative_indices[i])])

\* One turn of the while loop, from iterators `its`.
ConcatBody(its) ==
    LET n == Len(samplers)
        ex == {i \in 1..n : Exhausted(samplers[i], its[i])}
    IN  IF ex # {}
        THEN \* the samplers before the first exhausted one have been drawn
             Outcome("stop",
                     [i \in 1..n |-> IF i < Min(ex) THEN its[i] + 1 ELSE its[i]],
                     <<>>, <<>>, 0)
        ELSE LET sample_indices == [i \in 1..n |-> Item(samplers[i], its[i])]
                 drawn == [i \in 1..n |-> its[i] + 1]
             IN  IF OffsetMissing(sample_indices)
                 THEN Outcome("IndexError", drawn, <<>>, <<>>, 0)
                 ELSE Outcome("yield", drawn, ConcatBatch(sample_indices), <<>>, 0)

\* min(len(sampler) for sampler in self.samplers)
ConcatLen ==
    IF samplers = <<>>
    THEN [kind |-> "ValueError", v |-> 0]
    ELSE [kind |-> "ok",
          v |-> Min({SamplerLen(samplers[i]) : i \in 1..Len(samplers)})]

\* The pass's generator takes what one next() produced.
Advance(p, r) ==
    /\ pc' = [pc EXCEPT ![p] = PcAfter(r.kind)]
    /\ sampler_iters' = [sampler_iters EXCEPT ![p] = r.its]
    /\ batch' = [batch EXCEPT ![p] = r.buf]
    /\ idx_in_batch' = [idx_in_batch EXCEPT ![p] = r.idx]
    /\ out' = [out EXCEPT ![p] =
                  IF r.kind \in {"yield", "last"} THEN Record(@, r.yielded) ELSE @]
    /\ resumes' = [resumes EXCEPT ![p] = 1 - @]
    /\ UNCHANGED <<argVars, selfVars, len_result>>

ConcatSampler_next(p) ==
    /\ cls = "ConcatSampler"
    /\ pc[p] \in {"created", "suspended"}
    /\ Advance(p, ConcatBody(IF pc[p] = "created"
                             THEN FreshIters(Len(samplers))
                             ELSE sampler_iters[p]))

ConcatSampler_len ==
    /\ cls = "ConcatSampler"
    /\ constructed = "ok"
    /\ len_result = NoResult
    /\ len_result' = ConcatLen
    /\ UNCHANGED <<argVars, selfVars, passVars>>

\* iter(obj): a new generator for consumer p, whose previous pass, if any,
\* has ended.
BeginPass(p) ==
    /\ constructed = "ok"
    /\ pc[p] \in {"idle"} \cup Ended
    /\ pc' = [pc EXCEPT ![p] = "created"]
    /\ sampler_iters' = [sampler_iters EXCEPT ![p] = <<>>]
    /\ batch' = [batch EXCEPT ![p] = <<>>]
    /\ idx_in_batch' = [idx_in_batch EXCEPT ![p] = 0]
    /\ out' = [out EXCEPT ![p] = <<>>]
    /\ resumes' = [resumes EXCEPT ![p] = 0]
    /\ UNCHANGED <<argVars, selfVars, len_result>>

\* ----------------------------------------------------- MultiBatchSampler
IsInstanceInt(x) == x.type \in {"int", "bool"}   \* bool is a subclass of int
IsInstanceBool(x) == x.type = "bool"

\* The merge factor's test without its isinstance(..., bool) disjunct.
MergeSizeRejectedBoolBlind(m) == ~IsInstanceInt(m) \/ m.val <= 0

\* not isinstance(m, int) or isinstance(m, bool) or m <= 0
MergeSizeRejected(m) ==
    \/ ~IsInstanceInt(m)
    \/ IsInstanceBool(m)
    \/ m.val <= 0

MultiBatchSampler_init ==
    /\ cls = "MultiBatchSampler"
    /\ constructed = "new"
    /\ IF MergeSizeRejected(multi_merge_size)
       THEN /\ constructed' = "ValueError"
            /\ UNCHANGED <<peek_iters, batch_size, merge_size, drop_last>>
       ELSE IF ~IsInstanceBool(drop_last_arg)
       THEN /\ constructed' = "ValueError"
            /\ UNCHANGED <<peek_iters, batch_size, merge_size, drop_last>>
       ELSE IF Exhausted(sampler, NewIter)
       THEN \* next(iter(sampler)) raises StopIteration out of __init__
            /\ constructed' = "StopIteration"
            /\ UNCHANGED <<peek_iters, batch_size, merge_size, drop_last>>
       ELSE IF ~Item(sampler, NewIter).list
       THEN /\ constructed' = "ValueError"
            /\ peek_iters' = <<NewIter + 1>>
            /\ UNCHANGED <<batch_size, merge_size, drop_last>>
       ELSE /\ constructed' = "ok"
            /\ peek_iters' = <<NewIter + 1>>
            /\ batch_size' = multi_merge_size.val * sampler.batch_size
            /\ merge_size' = multi_merge_size.val
            /\ drop_last' = (drop_last_arg.val = 1)
    /\ UNCHANGED <<argVars, cumulative_indices, passVars, len_result>>

\* The wrapped batches it .. it+k-1, flattened.
Group(it, k) == Flatten([j \in 1..k |-> Item(sampler, it + j - 1).v])

\* The drop_last loop, were the group cut short by StopIteration yielded.
MultiDropBodyKeep(it) ==
    LET left == SamplerLen(sampler) - it + 1
    IN  IF left >= merge_size
        THEN Outcome("yield", <<it + merge_size>>, Group(it, merge_size), <<>>, 0)
        ELSE IF left > 0
        THEN Outcome("yield", <<it + left>>, Group(it, left), <<>>, 0)
        ELSE Outcome("stop", <<it>>, <<>>, <<>>, 0)

\* One turn of the drop_last loop: merge_size draws, flattened; a
\* StopIteration among them ends the pass, the batches drawn so far dropped.
MultiDropBody(it) ==
    LET left == SamplerLen(sampler) - it + 1
    IN  IF left >= merge_size
        THEN Outcome("yield", <<it + merge_size>>, Group(it, merge_size), <<>>, 0)
        ELSE Outcome("stop", <<it + left>>, <<>>, <<>>, 0)

\* The trailing batch yielded whole, not cut to what was filled.
WholeBuffer(buf, n) == buf

\* batch[:idx_in_batch]
Truncate(buf, n) == SubSeq(buf, 1, n)

\* [0] * self.batch_size
NewBuffer == [j \in 1..batch_size |-> 0]

\* The drop_last = False loop from iterator `it`, buffer `buf` holding `idx`
\* indices: batch[idx_in_batch] = idx past the buffer's end is IndexError.
RECURSIVE MultiFillBody(_, _, _)
MultiFillBody(it, buf, idx) ==
    IF Exhausted(sampler, it)
    THEN IF idx > 0
         THEN Outcome("last", <<it>>, Truncate(buf, idx), buf, idx)
         ELSE Outcome("stop", <<it>>, <<>>, buf, idx)
    ELSE LET indices == Item(sampler, it).v
             n == idx + Len(indices)
             filled == [j \in 1..Len(buf) |->
                           IF j > idx /\ j <= n THEN indices[j - idx] ELSE buf[j]]
         IN  IF n > Len(buf)
             THEN Outcome("IndexError", <<it + 1>>, <<>>, filled, Len(buf))
             ELSE IF n = batch_size
             THEN Outcome("yield", <<it + 1>>, filled, filled, n)
             ELSE MultiFillBody(it + 1, filled, n)

\* len(self.sampler) // merge_size for either value of drop_last.
MultiLenFloor ==
    [kind |-> "ok", v |-> SamplerLen(sampler) \div merge_size]

\* len(self.sampler) // merge_size, or rounded up when not drop_last.
MultiLen ==
    [kind |-> "ok",
     v |-> IF drop_last
           THEN SamplerLen(sampler) \div merge_size
           ELSE (SamplerLen(sampler) + merge_size - 1) \div merge_size]

\* What next() does on a MultiBatchSampler generator standing at pc[p].
MultiBody(p, start) ==
    IF drop_last
    THEN MultiDropBody(IF pc[p] = "created" THEN start[1] ELSE sampler_iters[p][1])
    ELSE CASE pc[p] = "created" -> MultiFillBody(start[1], NewBuffer, 0)
           [] pc[p] = "suspended" -> MultiFillBody(sampler_iters[p][1], NewBuffer, 0)
           [] OTHER -> Outcome("stop", sampler_iters[p], <<>>, batch[p], idx_in_batch[p])

MultiBatchSampler_next(p) ==
    /\ cls = "MultiBatchSampler"
    /\ pc[p] \in {"created", "suspended", "last"}
    /\ Advance(p, MultiBody(p, FreshIters(1)))

MultiBatchSampler_len ==
    /\ cls = "MultiBatchSampler"
    /\ constructed = "ok"
    /\ len_result = NoResult
    /\ len_result' = MultiLen
    /\ UNCHANGED <<argVars, selfVars, passVars>>

\* ------------------------------------------------------- specification
InitSelf ==
    /\ constructed = "new"
    /\ peek_iters = <<>>
    /\ cumulative_indices = <<>>
    /\ batch_size = 0
    /\ merge_size = 0
    /\ drop_last = FALSE
    /\ pc = [p \in Pass |-> "idle"]
    /\ sampler_iters = [p \in Pass |-> <<>>]
    /\ batch = [p \in Pass |-> <<>>]
    /\ idx_in_batch = [p \in Pass |-> 0]
    /\ out = [p \in Pass |-> <<>>]
    /\ resumes = [p \in Pass |-> 0]
    /\ len_result = NoResult

InitConcat ==
    /\ cls = "ConcatSampler"
    /\ samplers \in SeqsOf(ConcatChoices, 0, MaxSamplers)
    /\ cumulative_dataset_sizes \in SizesChoices
    /\ sampler = NoSampler
    /\ multi_merge_size = PyNone
    /\ drop_last_arg = PyNone

InitMulti ==
    /\ cls = "MultiBatchSampler"
    /\ samplers = <<>>
    /\ cumulative_dataset_sizes = NoSizes
    /\ sampler \in MultiChoices
    /\ multi_merge_size \in MergeChoices
    /\ drop_last_arg \in DropChoices

Init == (InitConcat \/ InitMulti) /\ InitSelf

Next ==
    \/ ConcatSampler_init
    \/ ConcatSampler_len
    \/ MultiBatchSampler_init
    \/ MultiBatchSampler_len
    \/ \E p \in Pass : BeginPass(p)
    \/ \E p \in Pass : ConcatSampler_next(p)
    \/ \E p \in Pass : MultiBatchSampler_next(p)

Spec == Init /\ [][Next]_vars

\* A consumer that has begun a pass keeps calling next() until it ends.
FairSpec ==
    /\ Spec
    /\ \A p \in Pass : WF_vars(ConcatSampler_next(p))
    /\ \A p \in Pass : WF_vars(MultiBatchSampler_next(p))

\* --------------------------------------------------------------- claims
IsConcat == cls = "ConcatSampler" /\ constructed = "ok"
IsMulti == cls = "MultiBatchSampler" /\ constructed = "ok"

PrefixOf(a, b) == Len(a) <= Len(b) /\ a = SubSeq(b, 1, Len(a))

\* The offset of wrapped sampler i: the total size of the datasets before it
\* when cumulative sizes are supplied, 0 when they are not.
OffsetOf(i) ==
    IF cumulative_dataset_sizes.given
    THEN SumSeq(SubSeq(DatasetSizes, 1, i - 1))
    ELSE 0

\* Step k's batch: each wrapped sampler's k-th item, in sampler order, every
\* element raised by the sampler's offset.
StepBatch(k) ==
    Flatten([i \in 1..Len(samplers) |->
                [j \in 1..Len(Item(samplers[i], k).v) |->
                    Item(samplers[i], k).v[j] + OffsetOf(i)]])

\* C1: every batch a ConcatSampler pass emits at step k is the concatenation,
\* in wrapped-sampler order, of the k-th item of each wrapped sampler with
\* offset[i] added to the elements of sampler i; offset[i] is 0 without
\* cumulative sizes, else the total size of the datasets before i.
C1_BatchIsOffsetConcatenation ==
    IsConcat =>
        \A p \in Pass : \A k \in 1..Len(out[p]) : out[p][k] = StepBatch(k)

C1_Witness ==
    /\ IsConcat
    /\ cumulative_dataset_sizes = [given |-> TRUE, v |-> <<3, 8>>]
    /\ Len(samplers) = 2 /\ samplers[1].list /\ ~samplers[2].list
    /\ samplers[1].batch_size = 2
    /\ out[1] = << <<0, 1, 3>>, <<2, 3, 4>> >>

MinLen == Min({SamplerLen(samplers[i]) : i \in 1..Len(samplers)})

\* C2: for a ConcatSampler over one or more wrapped samplers, len() is the
\* smallest wrapped length and a pass that has ended has yielded exactly that
\* many batches.
C2_LenAndPassAreMin ==
    (IsConcat /\ Len(samplers) >= 1) =>
        /\ len_result # NoResult => len_result = [kind |-> "ok", v |-> MinLen]
        /\ \A p \in Pass :
              /\ Len(out[p]) <= MinLen
              /\ pc[p] \in Ended => Len(out[p]) = MinLen

\* All indices of the wrapped batch sampler, in draw order.
AllIndices == Flatten([k \in 1..SamplerLen(sampler) |-> Item(sampler, k).v])

\* How many indices the first k wrapped batches hold.
IndicesIn(k) == SumSeq(SubSeq(sampler.lens, 1, k))

\* C3: with drop_last, the j-th batch of a pass is the wrapped batches
\* (j-1)m+1 .. jm concatenated in draw order, a finished pass has yielded
\* exactly floor(L/m) batches, and the trailing L mod m wrapped batches are
\* in no output batch.
C3_DropLastGroups ==
    (IsMulti /\ drop_last) =>
        \A p \in Pass :
            /\ pc[p] # "raised"
            /\ \A j \in 1..Len(out[p]) :
                  /\ j * merge_size <= SamplerLen(sampler)
                  /\ out[p][j] = SubSeq(AllIndices,
                                        IndicesIn((j - 1) * merge_size) + 1,
                                        IndicesIn(j * merge_size))
            /\ pc[p] = "done" =>
                  /\ Len(out[p]) * merge_size <= SamplerLen(sampler)
                  /\ SamplerLen(sampler) < (Len(out[p]) + 1) * merge_size

C3_Witness ==
    /\ IsMulti /\ drop_last /\ merge_size = 2
    /\ sampler.lens = <<1, 1, 1>>
    /\ pc[1] = "done" /\ out[1] = << <<1, 2>> >>

\* Every wrapped batch has batch_size indices, except possibly a shorter,
\* non-empty last one.
WellFormed(s) ==
    \A k \in 1..SamplerLen(s) :
        /\ s.lens[k] >= 1
        /\ k < SamplerLen(s) => s.lens[k] = s.batch_size

\* C4: without drop_last, over well-formed wrapped batches, the j-th batch of
\* a pass is the j-th run of batch_size drawn indices, emitted from inside
\* the loop when the buffer is exactly full; what is left at the end is
\* emitted as one shorter batch exactly when some index is pending; no batch
\* is empty or holds anything but drawn indices.
C4_KeepLastChunks ==
    (IsMulti /\ ~drop_last /\ WellFormed(sampler)) =>
        \A p \in Pass :
            LET n == Len(out[p])
                total == Len(AllIndices)
            IN  /\ pc[p] # "raised"
                /\ \A j \in 1..n :
                      /\ out[p][j] # <<>>
                      /\ (j - 1) * batch_size < total
                      /\ out[p][j] =
                             SubSeq(AllIndices, (j - 1) * batch_size + 1,
                                    IF j * batch_size <= total
                                    THEN j * batch_size ELSE total)
                /\ pc[p] = "suspended" => Len(out[p][n]) = batch_size
                /\ pc[p] = "last" =>
                      /\ Len(out[p][n]) < batch_size
                      /\ n * batch_size > total
                /\ pc[p] = "done" => n * batch_size >= total

C4_Witness ==
    /\ IsMulti /\ ~drop_last /\ merge_size = 2
    /\ sampler.lens = <<1, 1, 1>>
    /\ pc[1] = "done" /\ out[1] = << <<1, 2>>, <<3>> >>

\* C5: over well-formed wrapped batches, len() is floor(L/m) with drop_last
\* and ceil(L/m) without, and a finished pass has yielded that many batches.
C5_LenMatchesPass ==
    (IsMulti /\ WellFormed(sampler) /\ len_result # NoResult) =>
        LET L == SamplerLen(sampler)
            v == len_result.v
        IN  /\ len_result.kind = "ok"
            /\ drop_last => (v * merge_size <= L /\ L < (v + 1) * merge_size)
            /\ ~drop_last => ((v - 1) * merge_size < L /\ L <= v * merge_size)
            /\ \A p \in Pass : pc[p] = "done" => Len(out[p]) = v

C5_Witness ==
    /\ IsMulti /\ ~drop_last /\ merge_size = 3
    /\ SamplerLen(sampler) = 4 /\ WellFormed(sampler)
    /\ len_result = [kind |-> "ok", v |-> 2]
    /\ pc[1] = "done" /\ Len(out[1]) = 2

\* The arguments the claim says construction rejects.
BadMergeFactor == multi_merge_size.type # "int" \/ multi_merge_size.val <= 0
BadDropLast == drop_last_arg.type # "bool"
FirstItemBareInt == SamplerLen(sampler) >= 1 /\ ~sampler.list

\* C6: the MultiBatchSampler constructor raises ValueError whenever the merge
\* factor is not an integer, is a boolean or is <= 0, drop_last is not a
\* boolean, or the wrapped sampler's first item is a bare integer; no pass
\* begins on an object it rejected, and an object it accepted has a positive
\* non-boolean integer merge factor.
C6_ConstructionValidates ==
    (cls = "MultiBatchSampler" /\ constructed # "new") =>
        /\ (BadMergeFactor \/ BadDropLast \/ FirstItemBareInt)
              => constructed = "ValueError"
        /\ constructed # "ok" => \A p \in Pass : pc[p] = "idle"
        /\ constructed = "ok" =>
              /\ multi_merge_size.type = "int"
              /\ merge_size = multi_merge_size.val
              /\ merge_size >= 1

C6_Witness ==
    /\ cls = "MultiBatchSampler"
    /\ constructed = "ValueError"
    /\ multi_merge_size = PyBool(TRUE)
    /\ drop_last_arg = PyBool(FALSE)
    /\ sampler.list /\ SamplerLen(sampler) = 2

\* C7: a constructed ConcatSampler has as many offsets as wrapped samplers.
C7_OffsetsParallelToSamplers ==
    IsConcat => Len(cumulative_indices) = Len(samplers)

\* The first index of the first wrapped item.
FirstIndex == IF cls = "ConcatSampler" THEN samplers[1].first ELSE sampler.first

HasWrapped == cls = "ConcatSampler" => samplers # <<>>

\* C8: passes are independent and each starts from the first wrapped item:
\* of two passes one's output is a prefix of the other's whatever their
\* interleaving, a pass that has ended has yielded at least as much as any
\* other pass, and the first batch of every pass starts with the first index
\* of the first wrapped item, which the constructor's peek did not remove.
C8_PassesAreFresh ==
    constructed = "ok" =>
        \A p, q \in Pass :
            /\ PrefixOf(out[p], out[q]) \/ PrefixOf(out[q], out[p])
            /\ pc[p] \in Ended => Len(out[q]) <= Len(out[p])
            /\ (HasWrapped /\ out[p] # <<>>) => Head(out[p][1]) = FirstIndex

C8_Witness ==
    /\ constructed = "ok"
    /\ pc[1] = "done" /\ Len(out[1]) = 2
    /\ pc[2] = "suspended" /\ Len(out[2]) = 1
    /\ resumes[2] = 1

\* C9: every pass over a constructed ConcatSampler ends.
C9_PassTerminates ==
    \A p \in Pass :
        (IsConcat /\ pc[p] = "created") ~> (pc[p] \in Ended)

\* C10: without drop_last, over wrapped batches that are non-empty lists of
\* at most wrapped.batch_size indices, a pass raises nothing, never fills
\* past batch_size, emits no batch longer than batch_size, and a finished
\* pass has emitted exactly the drawn indices in draw order.
C10_NoOverflowNoLoss ==
    (IsMulti /\ ~drop_last) =>
        \A p \in Pass :
            /\ pc[p] # "raised"
            /\ idx_in_batch[p] <= batch_size
            /\ \A j \in 1..Len(out[p]) : Len(out[p][j]) <= batch_size
            /\ pc[p] = "done" => Flatten(out[p]) = AllIndices

====
